---------------------------- MODULE Spec2Model ----------------------------
(***************************************************************************)
(* The cleaning pipelines of code/fetch_REIT_data.py,                      *)
(* code/fetch_Climate_data.py and code/fetch_dataset2_data.py.             *)
(*                                                                         *)
(* A table (pandas DataFrame) is a record                                  *)
(*   cols  : the column names, in declaration order                        *)
(*   dtype : column name -> "float" | "object" | "datetime"                *)
(*   rows  : the rows in index order, each a function column name -> cell  *)
(* A cell is an integer.  NaN (also NaT / None) is the cell NaN.  Text     *)
(* cells are integer codes, dates are the integer YYYYMMDD.  Arithmetic    *)
(* on cells is exact: every comparison of quotients or square roots is     *)
(* cross-multiplied, floating-point rounding is not modelled.              *)
(* Series.fillna(..., inplace=True) on df[col] is modelled with the        *)
(* classic (non copy-on-write) pandas semantics: it writes into df.        *)
(***************************************************************************)
EXTENDS Integers, Sequences, FiniteSets, TLC

VARIABLES
    pipeline,   \* which module's stages run: "reit", "climate", "dataset2"
    entry,      \* what the caller invoked: "main", or one stage function
    pc,         \* the stage main() runs next; "done" once the caller has its answer
    df,         \* the table main() holds in its variable df
    arg,        \* the table as it was passed to the stage that ran last
    last,       \* the stage that ran last
    call,       \* the arguments the last stage was called with
    summary,    \* what the last stage reported (summary dict / logged counts)
    log,        \* one entry per stage that completed, in the order they ran
    saved,      \* the tables written to data/processed/, in the order written
    result      \* what the caller got back: a return value or an exception

vars == <<pipeline, entry, pc, df, arg, last, call, summary, log, saved, result>>

---------------------------------------------------------------------------
(* Cells *)

NaN == 0 - 999999
NegInf == 0 - 999998
PosInf == 0 + 999998
Unknown == 0 - 999997
\* A text cell of the date column that is not a date (pd.to_datetime raises).
NotADate == 0 - 999996

\* pd.isnull / Series.notna
IsNull(v) == v = NaN
NotNa(v) == v # NaN

\* np.isfinite
IsFinite(v) == v \notin {NaN, NegInf, PosInf}

RECURSIVE SumSeq(_)
SumSeq(s) == IF s = <<>> THEN 0 ELSE Head(s) + SumSeq(Tail(s))

CountTrue(mask) == Cardinality({i \in DOMAIN mask : mask[i]})

\* The elements of s at the positions where mask holds, in order.
Keep(s, mask) ==
    LET Marked(p) == p[2]
        kept == SelectSeq([i \in 1..Len(s) |-> <<s[i], mask[i]>>], Marked)
    IN [k \in 1..Len(kept) |-> kept[k][1]]

SeqToSet(s) == {s[i] : i \in DOMAIN s}

Sorted(s) == SortSeq(s, LAMBDA a, b : a < b)

---------------------------------------------------------------------------
(* Tables *)

NRows(t) == Len(t.rows)
NCols(t) == Len(t.cols)
ColSet(t) == SeqToSet(t.cols)
HasCol(t, c) == c \in ColSet(t)

\* df[col]
Column(t, c) == [i \in 1..NRows(t) |-> t.rows[i][c]]

\* series.dropna()
DropNa(s) == SelectSeq(s, NotNa)

\* df[col].isnull().sum()
NullCount(t, c) == Cardinality({i \in 1..NRows(t) : IsNull(t.rows[i][c])})

\* df[mask]
FilterRows(t, mask) == [t EXCEPT !.rows = Keep(t.rows, mask)]

\* df.drop(columns=drop)
DropColumns(t, drop) ==
    LET keepc == [i \in 1..NCols(t) |-> t.cols[i] \notin drop]
        left == ColSet(t) \ drop
    IN [cols  |-> Keep(t.cols, keepc),
        dtype |-> [c \in left |-> t.dtype[c]],
        rows  |-> [i \in 1..NRows(t) |-> [c \in left |-> t.rows[i][c]]]]

\* df[col] = values  (a new column goes last, an existing one keeps its place)
SetColumn(t, c, values, dt) ==
    LET all == ColSet(t) \cup {c}
    IN [cols  |-> IF HasCol(t, c) THEN t.cols ELSE Append(t.cols, c),
        dtype |-> [d \in all |-> IF d = c THEN dt ELSE t.dtype[d]],
        rows  |-> [i \in 1..NRows(t) |->
                     [d \in all |-> IF d = c THEN values[i] ELSE t.rows[i][d]]]]

\* df.select_dtypes(include=[np.number]).columns
NumericCols(t) ==
    Keep(t.cols, [i \in 1..NCols(t) |-> t.dtype[t.cols[i]] = "float"])

MissingCount(t) ==
    SumSeq([i \in 1..NCols(t) |-> NullCount(t, t.cols[i])])

---------------------------------------------------------------------------
(* Section 4: clean_missing_values *)

\* A drop threshold is the fraction num/den.
Frac(n, d) == [num |-> n, den |-> d]

\* A slip of the comparison: >= for >.
ExceedsThresholdInclusive(t, c, thr) ==
    /\ NRows(t) > 0
    /\ NullCount(t, c) * thr.den >= thr.num * NRows(t)

\* missing_pct[col] > threshold, with missing_pct = nulls / len(df).
\* On a table without rows the ratio is 0/0 = NaN and the comparison is False.
ExceedsThreshold(t, c, thr) ==
    /\ NRows(t) > 0
    /\ NullCount(t, c) * thr.den > thr.num * NRows(t)

\* missing_pct[missing_pct > threshold].index
ColsToDrop(t, thr) == {c \in ColSet(t) : ExceedsThreshold(t, c, thr)}

\* series.median(): the middle of the sorted non-null values, the mean of the
\* two middle ones for an even count, NaN when every value is null.
Median(s) ==
    LET v == Sorted(DropNa(s))
        n == Len(v)
    IN IF n = 0 THEN NaN
       ELSE IF n % 2 = 1 THEN v[(n + 1) \div 2]
       ELSE (v[n \div 2] + v[n \div 2 + 1]) \div 2

Occurrences(s, v) == Cardinality({i \in DOMAIN s : s[i] = v})

\* The elements of a finite set of integers, ascending.
RECURSIVE AscendingSeq(_)
AscendingSeq(S) ==
    IF S = {} THEN <<>>
    ELSE LET m == CHOOSE x \in S : \A y \in S : x <= y
         IN <<m>> \o AscendingSeq(S \ {m})

\* series.mode(): the most frequent non-null values, sorted ascending.
Mode(s) ==
    LET v == DropNa(s)
        best == {x \in SeqToSet(v) :
                    \A y \in SeqToSet(v) : Occurrences(v, y) <= Occurrences(v, x)}
    IN AscendingSeq(best)

\* series.max()
MaxOf(s) ==
    LET v == SeqToSet(DropNa(s))
    IN IF v = {} THEN NaN ELSE CHOOSE x \in v : \A y \in v : y <= x

\* REIT lines 127-135: median for float64/int64, otherwise mode()[0] or "Unknown".
ImputeValueReit(t, c) ==
    IF t.dtype[c] = "float" THEN Median(Column(t, c))
    ELSE IF Len(Mode(Column(t, c))) > 0 THEN Mode(Column(t, c))[1] ELSE Unknown

\* Climate lines 132-142: median, date mode (or max), mode (or "Unknown").
ImputeValueClimate(t, c) ==
    IF t.dtype[c] = "float" THEN Median(Column(t, c))
    ELSE IF t.dtype[c] = "datetime"
         THEN IF Len(Mode(Column(t, c))) > 0 THEN Mode(Column(t, c))[1]
              ELSE MaxOf(Column(t, c))
    ELSE IF Len(Mode(Column(t, c))) > 0 THEN Mode(Column(t, c))[1] ELSE Unknown

\* A slip of the imputation: the whole column is assigned the fill value.
ImputeReitWholeColumn(t) ==
    [t EXCEPT !.rows = [i \in 1..NRows(t) |->
        [c \in ColSet(t) |-> IF NullCount(t, c) > 0 THEN ImputeValueReit(t, c)
                             ELSE t.rows[i][c]]]]

\* The imputation loop: every column with a null gets its nulls filled.
ImputeReit(t) ==
    [t EXCEPT !.rows = [i \in 1..NRows(t) |->
        [c \in ColSet(t) |-> IF IsNull(t.rows[i][c]) THEN ImputeValueReit(t, c)
                             ELSE t.rows[i][c]]]]

ImputeClimate(t) ==
    [t EXCEPT !.rows = [i \in 1..NRows(t) |->
        [c \in ColSet(t) |-> IF IsNull(t.rows[i][c]) THEN ImputeValueClimate(t, c)
                             ELSE t.rows[i][c]]]]

\* REIT clean_missing_values(df, threshold): the returned table.
clean_missing_values_reit(t, thr) == ImputeReit(DropColumns(t, ColsToDrop(t, thr)))

\* Climate / dataset2 clean_missing_values(df, threshold): the returned table.
clean_missing_values_climate(t, thr) ==
    ImputeClimate(DropColumns(t, ColsToDrop(t, thr)))

---------------------------------------------------------------------------
(* Section 5: outliers *)

\* OUTLIER_THRESHOLD = 1.5 (REIT line 48), the fraction OutlierThresholdNum /
\* OutlierThresholdDen; WINSORIZE_LIMITS = (0.05, 0.05) (REIT line 49), the
\* fraction WinsorizeNum / WinsorizeDen on each tail.
OutlierThresholdNum == 3
OutlierThresholdDen == 2
WinsorizeNum == 5
WinsorizeDen == 100

OUTLIER_THRESHOLD == Frac(OutlierThresholdNum, OutlierThresholdDen)

\* 4 * series.quantile(quarters / 4), pandas' linear interpolation between the
\* order statistics around position (quarters/4) * (n - 1); nulls are skipped.
\* NaN when the series has no value.
Quantile4(s, quarters) ==
    LET v == Sorted(DropNa(s))
        n == Len(v)
        pos == quarters * (n - 1)
        lo == pos \div 4 + 1
        r == pos % 4
    IN IF n = 0 THEN NaN
       ELSE IF r = 0 THEN 4 * v[lo]
       ELSE (4 - r) * v[lo] + r * v[lo + 1]

\* A slip of identify_outliers_iqr: <= and >= for < and >, so that a value on a
\* bound is flagged.
identify_outliers_iqr_inclusive(s, k) ==
    LET Q1x4 == Quantile4(s, 1)
        Q3x4 == Quantile4(s, 3)
        IQRx4 == Q3x4 - Q1x4
    IN [i \in DOMAIN s |->
          /\ NotNa(s[i])
          /\ NotNa(Q1x4)
          /\ \/ 4 * k.den * s[i] <= k.den * Q1x4 - k.num * IQRx4
             \/ 4 * k.den * s[i] >= k.den * Q3x4 + k.num * IQRx4]

\* identify_outliers_iqr(series, k): (series < Q1 - k*IQR) | (series > Q3 + k*IQR).
\* With Q1x4 = 4*Q1 and Q3x4 = 4*Q3, multiplied through by 4 * k.den.
\* A comparison with NaN (a null value, or bounds of an all-null series) is False.
identify_outliers_iqr(s, k) ==
    LET Q1x4 == Quantile4(s, 1)
        Q3x4 == Quantile4(s, 3)
        IQRx4 == Q3x4 - Q1x4
        lower == k.den * Q1x4 - k.num * IQRx4
        upper == k.den * Q3x4 + k.num * IQRx4
    IN [i \in DOMAIN s |->
          /\ NotNa(s[i])
          /\ NotNa(Q1x4)
          /\ \/ 4 * k.den * s[i] < lower
             \/ 4 * k.den * s[i] > upper]

\* n^2 times the sum of squared deviations from the mean, sum((n*x - sum)^2).
DevSquares(s) ==
    LET n == Len(s)
        S == SumSeq(s)
    IN SumSeq([i \in DOMAIN s |-> (n * s[i] - S) * (n * s[i] - S)])

\* np.abs(z) > threshold for z = (x - mean) / std, where mean and std are those
\* of the values v and std * std = sum((v - mean)^2) / (n - ddof).  z is NaN
\* (never > threshold) for a null x, when v is empty, when n - ddof = 0 (std is
\* NaN) and when std = 0 (0 / 0).  Squared and multiplied through by n^2.
ZscoreExceeds(s, v, thr, ddof) ==
    LET n == Len(v)
        S == SumSeq(v)
        defined == n - ddof > 0 /\ DevSquares(v) > 0
    IN [i \in DOMAIN s |->
          /\ NotNa(s[i])
          /\ defined
          /\ (n * s[i] - S) * (n * s[i] - S) * (n - ddof) * thr.den * thr.den
                > thr.num * thr.num * DevSquares(v)]

\* identify_outliers_zscore(series, threshold): np.abs(stats.zscore(series)) >
\* threshold.  scipy's zscore uses the population standard deviation (ddof = 0)
\* and propagates a null: with one in the series every z is NaN.
identify_outliers_zscore(s, thr) ==
    IF \E i \in DOMAIN s : IsNull(s[i]) THEN [i \in DOMAIN s |-> FALSE]
    ELSE ZscoreExceeds(s, s, thr, 0)

\* A slip of the z-score mask: z_scores >= threshold for z_scores > threshold.
zscore_mask_inclusive(s, thr) ==
    LET v == DropNa(s)
        n == Len(v)
        S == SumSeq(v)
    IN [i \in DOMAIN s |->
          /\ NotNa(s[i])
          /\ n - 1 > 0 /\ DevSquares(v) > 0
          /\ (n * s[i] - S) * (n * s[i] - S) * (n - 1) * thr.den * thr.den
                >= thr.num * thr.num * DevSquares(v)]

\* A slip of the z-score mask: a standard deviation of 0 is replaced by a
\* divisor so small that every quotient exceeds the threshold.
zscore_mask_zero_std(s, thr) ==
    LET v == DropNa(s)
    IN IF Len(v) > 1 /\ DevSquares(v) = 0
       THEN [i \in DOMAIN s |-> NotNa(s[i])]
       ELSE ZscoreExceeds(s, v, thr, 1)

\* Climate lines 173-174: np.abs((df[col] - df[col].mean()) / df[col].std()) >
\* threshold.  pandas' mean() and std() skip nulls, std() is the sample
\* standard deviation (ddof = 1).
zscore_mask(s, thr) == ZscoreExceeds(s, DropNa(s), thr, 1)

\* stats.mstats.winsorize(a, limits): the int(low * n) smallest values are set
\* to the next smallest, the int(up * n) largest to the next largest.
winsorize(s) ==
    LET n == Len(s)
        v == Sorted(s)
        k == (WinsorizeNum * n) \div WinsorizeDen
        low == v[k + 1]
        high == v[n - k]
    IN [i \in DOMAIN s |->
          IF s[i] < low THEN low ELSE IF s[i] > high THEN high ELSE s[i]]

\* The outlier mask handle_outliers computes for one column (lines 219-222);
\* the raise of lines 223-224 is UnknownMethodRaised.
OutlierMaskReit(s, method) ==
    IF method = "iqr" THEN identify_outliers_iqr(s, OUTLIER_THRESHOLD)
    ELSE identify_outliers_zscore(s, OUTLIER_THRESHOLD)

\* A slip of the loop body: the column is winsorized whether or not it holds
\* an outlier.
HandleOutliersStepAlways(acc, c, method) ==
    LET s == Column(acc.df, c)
        outlier_count == CountTrue(OutlierMaskReit(s, method))
    IN [df |-> SetColumn(acc.df, c, winsorize(s), "float"),
        outliers_found |-> acc.outliers_found + outlier_count,
        columns_processed |-> acc.columns_processed + (IF outlier_count > 0 THEN 1 ELSE 0)]

\* One pass of the loop body of handle_outliers (lines 217-235) for column c:
\* acc is the table and the running summary.
HandleOutliersStep(acc, c, method) ==
    LET s == Column(acc.df, c)
        outlier_count == CountTrue(OutlierMaskReit(s, method))
    IN IF outlier_count > 0
       THEN [df |-> SetColumn(acc.df, c, winsorize(s), "float"),
             outliers_found |-> acc.outliers_found + outlier_count,
             columns_processed |-> acc.columns_processed + 1]
       ELSE acc

\* handle_outliers(df, method): the table and summary after the loop.
handle_outliers(t, method) ==
    LET cols == NumericCols(t)
        F[i \in 0..Len(cols)] ==
            IF i = 0 THEN [df |-> t, outliers_found |-> 0, columns_processed |-> 0]
            ELSE HandleOutliersStep(F[i - 1], cols[i], method)
    IN F[Len(cols)]

\* A slip of the loop body: the outliers are counted and the rows kept.
ZscoreStepKeepsRows(acc, c, thr) ==
    LET col_outliers == CountTrue(zscore_mask(Column(acc.df, c), thr))
    IN [acc EXCEPT !.outliers_count = acc.outliers_count + col_outliers]

\* One pass of the loop body of Climate's handle_outliers_zscore (lines 171-181).
ZscoreStep(acc, c, thr) ==
    LET outlier_mask == zscore_mask(Column(acc.df, c), thr)
        col_outliers == CountTrue(outlier_mask)
    IN IF col_outliers > 0
       THEN [df |-> FilterRows(acc.df, [i \in DOMAIN outlier_mask |-> ~outlier_mask[i]]),
             outliers_count |-> acc.outliers_count + col_outliers]
       ELSE acc

\* A variant that computes every column's mask on the table it was given and
\* removes the flagged rows at the end.
handle_outliers_zscore_on_input(t, thr) ==
    LET cols == NumericCols(t)
        flagged(i) == \E k \in 1..Len(cols) : zscore_mask(Column(t, cols[k]), thr)[i]
    IN [df |-> FilterRows(t, [i \in 1..NRows(t) |-> ~flagged(i)]),
        outliers_count |->
            SumSeq([k \in 1..Len(cols) |->
                       CountTrue(zscore_mask(Column(t, cols[k]), thr))])]

\* handle_outliers_zscore(df, threshold): the table and the logged count.
handle_outliers_zscore(t, thr) ==
    LET cols == NumericCols(t)
        F[i \in 0..Len(cols)] ==
            IF i = 0 THEN [df |-> t, outliers_count |-> 0]
            ELSE ZscoreStep(F[i - 1], cols[i], thr)
    IN F[Len(cols)]

---------------------------------------------------------------------------
(* Section 6: remove_duplicates *)

\* A slip of duplicated(): a null equals nothing, as in a comparison of floats.
duplicated_nulls_differ(t) ==
    [i \in 1..NRows(t) |->
        /\ NCols(t) > 0
        /\ \A c \in ColSet(t) : NotNa(t.rows[i][c])
        /\ \E j \in 1..(i - 1) : t.rows[j] = t.rows[i]]

\* df.duplicated(): row i repeats an earlier row.  Cells are compared by value
\* and two nulls in the same column are equal.  A table without rows or without
\* columns is "empty" and pandas reports no duplicate in it.
duplicated(t) ==
    [i \in 1..NRows(t) |->
        /\ NCols(t) > 0
        /\ \E j \in 1..(i - 1) : t.rows[j] = t.rows[i]]

\* A slip of drop_duplicates: only the first duplicate found is dropped.
drop_first_duplicate(t) ==
    LET dup == duplicated(t)
        first == CHOOSE i \in 1..NRows(t) : dup[i] /\ \A j \in 1..(i - 1) : ~dup[j]
    IN IF \E i \in 1..NRows(t) : dup[i]
       THEN FilterRows(t, [i \in 1..NRows(t) |-> i # first])
       ELSE t

\* df.drop_duplicates(keep='first')
drop_duplicates(t) ==
    LET dup == duplicated(t)
    IN FilterRows(t, [i \in 1..NRows(t) |-> ~dup[i]])

\* REIT remove_duplicates(df): the table and the summary dict (lines 260-274).
remove_duplicates_reit(t) ==
    LET duplicates_found == CountTrue(duplicated(t))
        out == IF duplicates_found > 0 THEN drop_duplicates(t) ELSE t
    IN [df |-> out,
        rows_before |-> NRows(t),
        duplicates_found |-> duplicates_found,
        rows_after |-> NRows(out)]

\* Climate / dataset2 remove_duplicates(df): the table and the logged dup_count.
remove_duplicates_climate(t) ==
    LET dup_count == CountTrue(duplicated(t))
    IN [df |-> IF dup_count > 0 THEN drop_duplicates(t) ELSE t,
        dup_count |-> dup_count]

---------------------------------------------------------------------------
(* Section 7: apply_filters *)

\* REIT lines 52-54, Climate lines 61, 66, 68, 69.
MIN_ASSETS == 100
START_YEAR == 2000
END_YEAR == 2024
MIN_OBSERVATIONS == 20
MIN_STOCK_PRICE == 1
START_DATE == 20000101
END_DATE == 20241231
REQUIRED_COLUMNS == <<"date", "ticker", "stock_price", "climate_score", "returns">>

\* The code 2.0 kept by REIT's rtype filter (line 341).
RTYPE_KEPT == 2

\* pd.to_datetime(series).dt.year: the year of the date YYYYMMDD, NaN for NaT.
YearOf(v) == IF IsNull(v) THEN NaN ELSE v \div 10000

\* A comparison with NaN / NaT is False.
Ge(v, bound) == NotNa(v) /\ v >= bound
Le(v, bound) == NotNa(v) /\ v <= bound
Gt(v, bound) == NotNa(v) /\ v > bound

NotNaCount(t, c) == NRows(t) - NullCount(t, c)

\* REIT FILTER 1 (lines 307-311): adds the column 'year', keeps the year range.
ReitYearFilter(t) ==
    IF HasCol(t, "date")
    THEN LET y == SetColumn(t, "year",
                     [i \in 1..NRows(t) |-> YearOf(t.rows[i]["date"])], "float")
         IN FilterRows(y, [i \in 1..NRows(y) |->
                /\ Ge(y.rows[i]["year"], START_YEAR)
                /\ Le(y.rows[i]["year"], END_YEAR)])
    ELSE t

\* REIT FILTER 2 (lines 314-319)
ReitAssetsFilter(t) ==
    IF HasCol(t, "assets")
    THEN FilterRows(t, [i \in 1..NRows(t) |-> Ge(t.rows[i]["assets"], MIN_ASSETS)])
    ELSE t

\* REIT FILTER 3 (lines 322-327)
ReitReturnsFilter(t) ==
    IF HasCol(t, "usdret")
    THEN FilterRows(t, [i \in 1..NRows(t) |-> NotNa(t.rows[i]["usdret"])])
    ELSE t

\* REIT FILTER 4 (lines 330-335)
ReitPriceFilter(t) ==
    IF HasCol(t, "usdprc")
    THEN FilterRows(t, [i \in 1..NRows(t) |->
            NotNa(t.rows[i]["usdprc"]) /\ Gt(t.rows[i]["usdprc"], 0)])
    ELSE t

\* A filter that insists on its column: without it no row is kept.
ReitRtypeFilterMandatory(t) ==
    IF HasCol(t, "rtype")
    THEN FilterRows(t, [i \in 1..NRows(t) |-> t.rows[i]["rtype"] = RTYPE_KEPT])
    ELSE FilterRows(t, [i \in 1..NRows(t) |-> FALSE])

\* REIT FILTER 5 (lines 338-344)
ReitRtypeFilter(t) ==
    IF HasCol(t, "rtype")
    THEN FilterRows(t, [i \in 1..NRows(t) |-> t.rows[i]["rtype"] = RTYPE_KEPT])
    ELSE t

\* The removed count a REIT filter prints: the non-null count of its column
\* before the filter minus the non-null count after it (lines 315-317, 323-326,
\* 331-334); 0 stands for a filter that did not run.
NotNaRemoved(before, after, c) ==
    IF HasCol(before, c) THEN NotNaCount(before, c) - NotNaCount(after, c) ELSE 0

\* REIT apply_filters(df): the table and the summary dict, with the removed
\* counts the filters print.
apply_filters_reit(t) ==
    LET t1 == ReitYearFilter(t)
        t2 == ReitAssetsFilter(t1)
        t3 == ReitReturnsFilter(t2)
        t4 == ReitPriceFilter(t3)
        t5 == ReitRtypeFilter(t4)
        applied == [i \in 1..5 |->
                      HasCol(t, <<"date", "assets", "usdret", "usdprc", "rtype">>[i])]
    IN [df |-> t5,
        rows_before |-> NRows(t),
        rows_after |-> NRows(t5),
        filters_applied |-> Keep(<<"year_filter_2000_2024", "min_assets_100M",
                                   "valid_returns", "valid_prices", "rtype_2.0">>,
                                 applied),
        assets_removed |-> NotNaRemoved(t1, t2, "assets"),
        returns_removed |-> NotNaRemoved(t2, t3, "usdret"),
        price_removed |-> NotNaRemoved(t3, t4, "usdprc"),
        rtype_removed |-> IF HasCol(t4, "rtype") THEN NRows(t4) - NRows(t5) ELSE 0]

\* Climate FILTER 1 (lines 238-241): the column 'date' becomes datetime64.
ClimateDateFilter(t) ==
    IF HasCol(t, "date")
    THEN LET d == SetColumn(t, "date", Column(t, "date"), "datetime")
         IN FilterRows(d, [i \in 1..NRows(d) |->
                /\ Ge(d.rows[i]["date"], START_DATE)
                /\ Le(d.rows[i]["date"], END_DATE)])
    ELSE t

\* Climate FILTER 2 (lines 244-248)
ClimatePriceFilter(t) ==
    IF HasCol(t, "stock_price")
    THEN FilterRows(t, [i \in 1..NRows(t) |->
            Ge(t.rows[i]["stock_price"], MIN_STOCK_PRICE)])
    ELSE t

\* Climate FILTER 3 (lines 251-255)
ClimateScoreFilter(t) ==
    IF HasCol(t, "climate_score")
    THEN FilterRows(t, [i \in 1..NRows(t) |-> NotNa(t.rows[i]["climate_score"])])
    ELSE t

\* Climate FILTER 4 (lines 259-263): no null in the required columns present.
ClimatePairedFilter(t) ==
    LET required_cols ==
            Keep(REQUIRED_COLUMNS, [i \in 1..Len(REQUIRED_COLUMNS) |->
                                      HasCol(t, REQUIRED_COLUMNS[i])])
    IN FilterRows(t, [i \in 1..NRows(t) |->
            \A j \in 1..Len(required_cols) : NotNa(t.rows[i][required_cols[j]])])

\* Climate FILTER 5 (lines 266-271)
ClimateReturnsFilter(t) ==
    IF HasCol(t, "returns")
    THEN FilterRows(t, [i \in 1..NRows(t) |->
            NotNa(t.rows[i]["returns"]) /\ IsFinite(t.rows[i]["returns"])])
    ELSE t

\* df['ticker'].value_counts()[v]: the rows holding the non-null value v.
ValueCount(t, c, v) == Cardinality({i \in 1..NRows(t) : t.rows[i][c] = v})

\* A slip of the small-company test: <= for <.
SmallCompaniesInclusive(t) ==
    {v \in SeqToSet(DropNa(Column(t, "ticker"))) :
        ValueCount(t, "ticker", v) <= MIN_OBSERVATIONS}

\* company_counts[company_counts < MIN_OBSERVATIONS].index (lines 275-276)
SmallCompanies(t) ==
    {v \in SeqToSet(DropNa(Column(t, "ticker"))) :
        ValueCount(t, "ticker", v) < MIN_OBSERVATIONS}

\* A company filter that removes one small company per call, the smallest ticker.
ClimateCompanyFilterOneByOne(t) ==
    IF HasCol(t, "ticker") /\ SmallCompanies(t) # {}
    THEN LET first == CHOOSE v \in SmallCompanies(t) :
                          \A w \in SmallCompanies(t) : v <= w
         IN FilterRows(t, [i \in 1..NRows(t) |-> t.rows[i]["ticker"] # first])
    ELSE t

\* Climate FILTER 6 (lines 274-279)
ClimateCompanyFilter(t) ==
    IF HasCol(t, "ticker") /\ SmallCompanies(t) # {}
    THEN FilterRows(t, [i \in 1..NRows(t) |->
            t.rows[i]["ticker"] \notin SmallCompanies(t)])
    ELSE t

\* The filters in another order: the company filter first, on the raw table.
apply_filters_climate_company_first(t) ==
    LET t0 == ClimateCompanyFilter(t)
        t1 == ClimateDateFilter(t0)
        t2 == ClimatePriceFilter(t1)
        t3 == ClimateScoreFilter(t2)
        t4 == ClimatePairedFilter(t3)
        t5 == ClimateReturnsFilter(t4)
    IN [df |-> t5,
        rows_before |-> NRows(t),
        price_removed |-> NRows(t1) - NRows(t2),
        climate_removed |-> NRows(t2) - NRows(t3),
        paired_removed |-> NRows(t3) - NRows(t4),
        returns_removed |-> NRows(t4) - NRows(t5),
        companies_removed |->
            IF HasCol(t, "ticker") THEN Cardinality(SmallCompanies(t)) ELSE 0,
        rows_removed |-> NRows(t) - NRows(t5)]

\* Climate apply_filters(df): the table and the logged removed counts; 0 stands
\* for a filter that did not run.
apply_filters_climate(t) ==
    LET t1 == ClimateDateFilter(t)
        t2 == ClimatePriceFilter(t1)
        t3 == ClimateScoreFilter(t2)
        t4 == ClimatePairedFilter(t3)
        t5 == ClimateReturnsFilter(t4)
        t6 == ClimateCompanyFilter(t5)
    IN [df |-> t6,
        rows_before |-> NRows(t),
        price_removed |-> NRows(t1) - NRows(t2),
        climate_removed |-> NRows(t2) - NRows(t3),
        paired_removed |-> NRows(t3) - NRows(t4),
        returns_removed |-> NRows(t4) - NRows(t5),
        companies_removed |->
            IF HasCol(t5, "ticker") THEN Cardinality(SmallCompanies(t5)) ELSE 0,
        rows_removed |-> NRows(t) - NRows(t6)]

\* dataset2 apply_filters(df) (lines 218-225): drops the rows whose numeric
\* cells are all zero; the table and the logged counts.
apply_filters_dataset2(t) ==
    LET numeric_cols == NumericCols(t)
        all_zero_rows == [i \in 1..NRows(t) |->
            \A j \in 1..Len(numeric_cols) : t.rows[i][numeric_cols[j]] = 0]
        hit == Len(numeric_cols) > 0 /\ CountTrue(all_zero_rows) > 0
        out == IF hit THEN FilterRows(t, [i \in 1..NRows(t) |-> ~all_zero_rows[i]])
               ELSE t
    IN [df |-> out,
        rows_before |-> NRows(t),
        all_zero_found |-> IF Len(numeric_cols) > 0 THEN CountTrue(all_zero_rows) ELSE 0,
        rows_removed |-> NRows(t) - NRows(out)]

\* pd.to_datetime(df['date']) raises a ValueError on a text that is no date
\* (REIT line 308, Climate line 239).
DateParseFails(t) ==
    HasCol(t, "date") /\ \E i \in 1..NRows(t) : t.rows[i]["date"] = NotADate

\* handle_outliers raises ValueError("Unknown outlier method") in the first
\* pass of its loop over the numeric columns (REIT lines 217-224): with no
\* numeric column the loop body never runs and nothing is raised.
UnknownMethodRaised(t, method) ==
    method \notin {"iqr", "zscore"} /\ Len(NumericCols(t)) > 0

---------------------------------------------------------------------------
(* Section 8: validate_cleaned_data, save_cleaned_data *)

\* 'id' in col.lower(), for the column names of the tables below.
IsCriticalCol(c) == c \in {"entity_id"}

\* critical_cols with a null (the warning of Climate line 315)
CriticalNulls(t) == {c \in ColSet(t) : IsCriticalCol(c) /\ NullCount(t, c) > 0}

\* A validator for which a null in a critical column is a failure.
validate_critical_nulls_fail(t) ==
    [is_valid |-> NRows(t) > 0 /\ CriticalNulls(t) = {},
     warnings |-> Cardinality(CriticalNulls(t))]

\* validate_cleaned_data(df) (Climate lines 302-327, dataset2 lines 248-273):
\* the verdict, and the columns the warning names.
validate_cleaned_data(t) ==
    [is_valid |-> NRows(t) > 0,
     warnings |-> Cardinality(CriticalNulls(t))]

\* save_cleaned_data(df): df.to_csv writes the table, whatever it holds.
save_cleaned_data(files, t) == Append(files, t)

---------------------------------------------------------------------------
(* Input tables: what load_raw_data() can return (pd.read_csv) *)

MaxRows == 3       \* most rows of an enumerated table with several columns
MaxRowsNum == 5    \* most rows of an enumerated table with one numeric column

\* Cells of the enumerated tables.  Numeric cells are even, so that the median
\* of any of them (the mean of two cells) is again an integer.
NumCells == {NaN, 0, 2}
FewNumCells == {NaN, 0}
FullNumCells == {0, 2}
TextCells == {NaN, 1, 2}
DateCells == {NaN, 19991231, 20240615}
TickerCells == {1, 2}

\* What a column holds in the file: numbers, or text (dates included).
KindOf(c) ==
    IF c \in {"x", "y", "assets", "usdret", "usdprc", "rtype",
              "stock_price", "climate_score", "returns", "year"}
    THEN "float" ELSE "object"

\* pd.read_csv infers float64 for a column that is entirely empty and object
\* for every column of a file without rows.
read_csv(cols, rows) ==
    [cols  |-> cols,
     dtype |-> [c \in SeqToSet(cols) |->
                  IF rows = <<>> THEN "object"
                  ELSE IF \A i \in DOMAIN rows : IsNull(rows[i][c]) THEN "float"
                  ELSE KindOf(c)],
     rows  |-> rows]

SeqsUpTo(S, n) == UNION {[1..k -> S] : k \in 0..n}

NumTables ==
    {read_csv(<<"x">>, rows) : rows \in SeqsUpTo([x : NumCells], MaxRowsNum)}

MixedTables ==
    {read_csv(<<"x", "c">>, rows) :
        rows \in SeqsUpTo([x : FewNumCells, c : TextCells], MaxRows)}

TwoNumTables ==
    {read_csv(<<"x", "y">>, rows) :
        rows \in SeqsUpTo([x : NumCells, y : FullNumCells], MaxRows)}

KeyTables ==
    {read_csv(<<"date", "ticker">>, rows) :
        rows \in SeqsUpTo([date : DateCells, ticker : TickerCells], MaxRows)}

\* The column [1, 2, 3, 4, 5, 100] of the IQR example.
IqrExample ==
    read_csv(<<"x">>, [i \in 1..6 |-> [x |-> <<1, 2, 3, 4, 5, 100>>[i]]])

\* A column with mean 0 and sample standard deviation 10 holding 29 and 31
\* (2.9 and 3.1 standard deviations): 29, 31, -29, -31, 7, -7, 7, -7 and 31 zeros.
ZscoreExample ==
    read_csv(<<"x">>, [i \in 1..39 |->
        [x |-> IF i <= 8 THEN <<29, 31, 0 - 29, 0 - 31, 7, 0 - 7, 7, 0 - 7>>[i] ELSE 0]])

\* Twenty rows, the smallest count whose 5% tail holds a value: 2, 4, ..., 38
\* and the outlier 200.
WinsorExample ==
    read_csv(<<"x">>, [i \in 1..20 |-> [x |-> IF i = 20 THEN 200 ELSE 2 * i]])

\* Companies of 19 and of 20 observations inside the date range, and one of 20
\* with a single observation before START_DATE; every row is distinct.
GroupExample ==
    read_csv(<<"date", "ticker">>, [i \in 1..59 |->
        [date   |-> IF i = 59 THEN 19991231 ELSE 20000100 + ((i - 1) % 20) + 1,
         ticker |-> IF i <= 19 THEN 1 ELSE IF i <= 39 THEN 2 ELSE 3]])

\* One company of 21 observations, two of them on the same date with
\* different text in the column c.
DupKeyExample ==
    read_csv(<<"date", "ticker", "c">>, [i \in 1..21 |->
        [date   |-> 20000100 + ((i - 1) % 20) + 1,
         ticker |-> 1,
         c      |-> IF i = 21 THEN 2 ELSE 1]])

\* Twenty rows with the column of WinsorExample, a numeric column 1, 2, ..., 20
\* without outlier under the IQR rule, and a text column.
CapExample ==
    read_csv(<<"x", "y", "c">>, [i \in 1..20 |->
        [x |-> IF i = 20 THEN 200 ELSE 2 * i,
         y |-> i,
         c |-> 1 + (i % 2)]])

\* A file of 100 rows and 5 columns: the column m is 80% missing, x holds 10
\* and 11 and the extreme value 30 in the rows 50, 51 and 52 (the IQR bounds
\* are 8.5 and 12.5), the rows 99 and 100 are copies
\* of the rows 1 and 2, and the rows 11..20 are dated before START_YEAR.  The
\* column c numbers the rows.
EndToEndExample ==
    read_csv(<<"date", "ticker", "x", "c", "m">>, [i \in 1..100 |->
        LET src == IF i > 98 THEN i - 98 ELSE i
        IN [date   |-> IF src \in 11..20 THEN 19990101 ELSE 20000101 + (src % 28),
            ticker |-> 1,
            x      |-> IF src \in 50..52 THEN 30 ELSE 10 + (src % 2),
            c      |-> src,
            m      |-> IF src \in 21..40 THEN 5 ELSE NaN]])

Examples ==
    {IqrExample, ZscoreExample, WinsorExample, GroupExample, DupKeyExample,
     CapExample, EndToEndExample}

InputTables ==
    NumTables \cup MixedTables \cup TwoNumTables \cup KeyTables \cup Examples

MaxRowsPool == 2   \* most rows of a table drawn from the rows of a schema

\* A table holding the columns cols of the rows.
Project(cols, rows) ==
    read_csv(cols, [i \in DOMAIN rows |-> [c \in SeqToSet(cols) |-> rows[i][c]]])

\* A row of the REIT file that every filter keeps.
GoodReitRow ==
    [date |-> 20240615, ticker |-> 1, assets |-> 200, usdret |-> 6,
     usdprc |-> 10, rtype |-> 2]

\* That row, the same key with other assets, and rows that one filter removes
\* or whose date cannot be parsed.
ReitRows ==
    {GoodReitRow,
     [GoodReitRow EXCEPT !.assets = 400],
     [GoodReitRow EXCEPT !.date = 19991231],
     [GoodReitRow EXCEPT !.date = NotADate],
     [GoodReitRow EXCEPT !.assets = 50],
     [GoodReitRow EXCEPT !.assets = NaN],
     [GoodReitRow EXCEPT !.usdret = NaN],
     [GoodReitRow EXCEPT !.usdprc = 0],
     [GoodReitRow EXCEPT !.rtype = 4]}

\* The columns a REIT file holds: all, some, or none of the filtered ones.
ReitColumnSets ==
    {<<"date", "ticker", "assets", "usdret", "usdprc", "rtype">>,
     <<"ticker", "assets", "usdprc">>,
     <<"date", "usdret", "rtype">>,
     <<"ticker">>}

ReitTables ==
    {Project(cols, rows) :
        cols \in ReitColumnSets, rows \in SeqsUpTo(ReitRows, MaxRowsPool)}

\* A row of the climate file that every row filter keeps.
GoodClimateRow ==
    [date |-> 20240615, ticker |-> 1, stock_price |-> 10, climate_score |-> 4,
     returns |-> 2]

ClimateRows ==
    {GoodClimateRow,
     [GoodClimateRow EXCEPT !.date = 19991231],
     [GoodClimateRow EXCEPT !.date = NotADate],
     [GoodClimateRow EXCEPT !.stock_price = 0],
     [GoodClimateRow EXCEPT !.climate_score = NaN],
     [GoodClimateRow EXCEPT !.returns = NaN]}

ClimateColumnSets ==
    {<<"date", "ticker", "stock_price", "climate_score", "returns">>,
     <<"date", "stock_price", "returns">>,
     <<"climate_score", "returns">>}

ClimateTables ==
    {Project(cols, rows) :
        cols \in ClimateColumnSets, rows \in SeqsUpTo(ClimateRows, MaxRowsPool)}

\* Tables with an identifier column, with and without nulls in it.
IdCells == {NaN, 1, 2}

IdTables ==
    {read_csv(<<"entity_id">>, rows) :
        rows \in SeqsUpTo([entity_id : IdCells], MaxRowsPool)}

---------------------------------------------------------------------------
(* The stages, as main() calls them *)

\* MISSING_VALUE_THRESHOLD = 0.5 (REIT line 46), MISSING_THRESHOLD = 0.6
\* (Climate line 62) and 0.7 (dataset2 line 57).
MISSING_VALUE_THRESHOLD == Frac(1, 2)
MISSING_THRESHOLD_CLIMATE == Frac(3, 5)
MISSING_THRESHOLD_DATASET2 == Frac(7, 10)

\* The thresholds a stage is called with: its default, and 1.0.
DropThresholds(p) ==
    {Frac(1, 1),
     IF p = "reit" THEN MISSING_VALUE_THRESHOLD
     ELSE IF p = "climate" THEN MISSING_THRESHOLD_CLIMATE
     ELSE MISSING_THRESHOLD_DATASET2}

\* handle_outliers_zscore(df, threshold=3.0): the default, and 1.0.
ZscoreThresholds == {Frac(3, 1), Frac(1, 1)}

\* handle_outliers(df, method=OUTLIER_METHOD): the two methods the code knows
\* and one it does not.
OutlierMethods == {"iqr", "zscore", "mad"}

\* Cells of a returns column, the infinite ones included.
ReturnCells == {NaN, NegInf, PosInf, 2}

\* Tables with a returns column that holds infinite cells.  They are given to
\* apply_filters only: the arithmetic of the other stages is on finite cells.
InfiniteTables(p) ==
    IF p = "reit"
    THEN {read_csv(<<"usdret">>, rows) :
            rows \in SeqsUpTo([usdret : ReturnCells], MaxRowsPool)}
    ELSE {read_csv(<<"returns">>, rows) :
            rows \in SeqsUpTo([returns : ReturnCells], MaxRowsPool)}

\* The raw files a module can load: any table, and tables of its own schema.
Inputs(p) ==
    InputTables \cup IdTables \cup
    (IF p = "reit" THEN ReitTables ELSE IF p = "climate" THEN ClimateTables ELSE {})

\* What the caller has from the call: nothing yet, a return value (the table
\* as a sequence of one, <<>> for None, and the output path), or an exception.
Running == [kind |-> "running", df |-> <<>>, output_path |-> "None", error |-> "None"]
Returned(tables, path) ==
    [kind |-> "returned", df |-> tables, output_path |-> path, error |-> "None"]
Raised(e) == [kind |-> "raised", df |-> <<>>, output_path |-> "None", error |-> e]

\* The entry a completed stage leaves behind (its printed / logged lines).
LogEntry(stage, before, after) ==
    [stage |-> stage, rows_before |-> NRows(before), rows_after |-> NRows(after)]

\* A stage raised: nothing catches the exception in REIT main(); Climate and
\* dataset2 main() log it and raise it again (lines 402-404, 348-350).  The
\* caller gets the exception, the remaining stages do not run.
StageRaises(stage, e) ==
    /\ arg' = df
    /\ last' = stage
    /\ result' = Raised(e)
    /\ pc' = "done"
    /\ UNCHANGED <<df, summary, log>>

\* The state after load_raw_data(): main() is about to call its first stage, or
\* a caller that uses the stage functions itself is about to call one of them.
Init ==
    /\ pipeline \in {"reit", "climate", "dataset2"}
    /\ entry \in {"main", "caller"}
    /\ pc \in IF entry = "main" THEN {"clean"}
              ELSE IF pipeline = "reit" THEN {"clean", "filters"}
              ELSE {"clean", "filters", "validate"}
    /\ df \in Inputs(pipeline) \cup
               (IF pc = "filters" THEN InfiniteTables(pipeline) ELSE {})
    /\ arg = df
    /\ last = "load_raw_data"
    /\ call = [filename |-> "raw"]
    /\ summary = [rows |-> NRows(df), columns |-> NCols(df)]
    /\ log = <<>>
    /\ saved = <<>>
    /\ result = Running

\* REIT main(), line 404
CleanMissingValuesReit ==
    /\ pipeline = "reit"
    /\ pc = "clean"
    /\ \E thr \in DropThresholds(pipeline) :
         LET out == clean_missing_values_reit(df, thr)
         IN /\ df' = out
            /\ call' = [threshold |-> thr]
            /\ summary' = [rows_before |-> NRows(df),
                           cols_before |-> NCols(df),
                           rows_after |-> NRows(out),
                           cols_after |-> NCols(out),
                           cols_dropped |-> Cardinality(ColsToDrop(df, thr))]
            /\ log' = Append(log, LogEntry("clean_missing_values", df, out))
    /\ arg' = df
    /\ last' = "clean_missing_values"
    /\ pc' = "outliers"
    /\ UNCHANGED <<pipeline, entry, saved, result>>

\* Climate main(), line 370; dataset2 main() runs the same code
CleanMissingValuesClimate ==
    /\ pipeline \in {"climate", "dataset2"}
    /\ pc = "clean"
    /\ \E thr \in DropThresholds(pipeline) :
         LET out == clean_missing_values_climate(df, thr)
         IN /\ df' = out
            /\ call' = [threshold |-> thr]
            /\ summary' = [rows |-> NRows(out),
                           columns |-> NCols(out),
                           removed_columns |-> NCols(df) - NCols(out)]
            /\ log' = Append(log, LogEntry("clean_missing_values", df, out))
    /\ arg' = df
    /\ last' = "clean_missing_values"
    /\ pc' = "outliers"
    /\ UNCHANGED <<pipeline, entry, saved, result>>

\* REIT main(), line 407
HandleOutliers ==
    /\ pipeline = "reit"
    /\ pc = "outliers"
    /\ \E method \in OutlierMethods :
         /\ call' = [method |-> method]
         /\ IF UnknownMethodRaised(df, method)
            THEN StageRaises("handle_outliers", "ValueError")
            ELSE LET out == handle_outliers(df, method)
                 IN /\ df' = out.df
                    /\ summary' = [outliers_found |-> out.outliers_found,
                                   columns_processed |-> out.columns_processed]
                    /\ log' = Append(log, LogEntry("handle_outliers", df, out.df))
                    /\ arg' = df
                    /\ last' = "handle_outliers"
                    /\ pc' = "dedupe"
                    /\ UNCHANGED result
    /\ UNCHANGED <<pipeline, entry, saved>>

\* Climate main(), line 374; dataset2 main() runs the same code
HandleOutliersZscore ==
    /\ pipeline \in {"climate", "dataset2"}
    /\ pc = "outliers"
    /\ \E thr \in ZscoreThresholds :
         LET out == handle_outliers_zscore(df, thr)
         IN /\ df' = out.df
            /\ call' = [threshold |-> thr]
            /\ summary' = [outliers_count |-> out.outliers_count,
                           rows |-> NRows(out.df)]
            /\ log' = Append(log, LogEntry("handle_outliers_zscore", df, out.df))
    /\ arg' = df
    /\ last' = "handle_outliers_zscore"
    /\ pc' = "dedupe"
    /\ UNCHANGED <<pipeline, entry, saved, result>>

\* remove_duplicates(df) of the running module and what it reports; the caller
\* keeps what the stage before it reported.
RemoveDuplicatesCall(before) ==
    LET out == IF pipeline = "reit" THEN remove_duplicates_reit(df)
               ELSE remove_duplicates_climate(df)
    IN /\ df' = out.df
       /\ summary' = [rows_before |-> NRows(df),
                      duplicates_found |-> IF pipeline = "reit"
                                           THEN out.duplicates_found
                                           ELSE out.dup_count,
                      rows_after |-> NRows(out.df)]
       /\ log' = Append(log, LogEntry("remove_duplicates", df, out.df))
       /\ arg' = df
       /\ call' = [previous |-> before]

\* REIT main(), line 410; Climate main(), line 378
RemoveDuplicates ==
    /\ pc = "dedupe"
    /\ RemoveDuplicatesCall(summary)
    /\ last' = "remove_duplicates"
    /\ pc' = IF entry = "main" THEN "filters" ELSE "dedupe_again"
    /\ UNCHANGED <<pipeline, entry, saved, result>>

\* A caller applying remove_duplicates to its own result.
RemoveDuplicatesAgain ==
    /\ pc = "dedupe_again"
    /\ RemoveDuplicatesCall(summary)
    /\ last' = "remove_duplicates_again"
    /\ pc' = "done"
    /\ result' = Returned(<<df'>>, "None")
    /\ UNCHANGED <<pipeline, entry, saved>>

\* Where apply_filters hands the table: main() goes on (REIT to the save,
\* Climate and dataset2 to the validation), a caller has its return value.
AfterFilters(out, next) ==
    /\ df' = out.df
    /\ summary' = [f \in DOMAIN out \ {"df"} |-> out[f]]
    /\ log' = Append(log, LogEntry("apply_filters", df, out.df))
    /\ arg' = df
    /\ last' = "apply_filters"
    /\ pc' = IF entry = "main" THEN next ELSE "filters_again"
    /\ result' = IF entry = "main" THEN result ELSE Returned(<<out.df>>, "None")

\* REIT main(), line 413
ApplyFiltersReit ==
    /\ pipeline = "reit"
    /\ pc = "filters"
    /\ IF DateParseFails(df)
       THEN StageRaises("apply_filters", "ValueError")
       ELSE AfterFilters(apply_filters_reit(df), "save")
    /\ call' = [rows |-> NRows(df)]
    /\ UNCHANGED <<pipeline, entry, saved>>

\* Climate main(), line 382
ApplyFiltersClimate ==
    /\ pipeline = "climate"
    /\ pc = "filters"
    /\ IF DateParseFails(df)
       THEN StageRaises("apply_filters", "ValueError")
       ELSE AfterFilters(apply_filters_climate(df), "validate")
    /\ call' = [rows |-> NRows(df)]
    /\ UNCHANGED <<pipeline, entry, saved>>

\* dataset2 main(), line 328
ApplyFiltersDataset2 ==
    /\ pipeline = "dataset2"
    /\ pc = "filters"
    /\ AfterFilters(apply_filters_dataset2(df), "validate")
    /\ call' = [rows |-> NRows(df)]
    /\ UNCHANGED <<pipeline, entry, saved>>

\* A caller applying apply_filters to its own result.
ApplyFiltersAgain ==
    /\ pc = "filters_again"
    /\ IF pipeline # "dataset2" /\ DateParseFails(df)
       THEN StageRaises("apply_filters_again", "ValueError")
       ELSE LET out == IF pipeline = "reit" THEN apply_filters_reit(df)
                       ELSE IF pipeline = "climate" THEN apply_filters_climate(df)
                       ELSE apply_filters_dataset2(df)
            IN /\ df' = out.df
               /\ summary' = [f \in DOMAIN out \ {"df"} |-> out[f]]
               /\ log' = Append(log, LogEntry("apply_filters", df, out.df))
               /\ arg' = df
               /\ last' = "apply_filters_again"
               /\ pc' = "done"
               /\ result' = Returned(<<out.df>>, "None")
    /\ call' = [rows |-> NRows(df)]
    /\ UNCHANGED <<pipeline, entry, saved>>

\* Climate main(), lines 386-389; dataset2 main(), lines 332-335: an invalid
\* table makes main() return (None, None).  REIT main() has no such step.
ValidateCleanedData ==
    /\ pipeline \in {"climate", "dataset2"}
    /\ pc = "validate"
    /\ LET out == validate_cleaned_data(df)
       IN /\ summary' = out
          /\ IF entry = "main" /\ out.is_valid
             THEN pc' = "save" /\ UNCHANGED result
             ELSE pc' = "done" /\ result' = Returned(<<>>, "None")
    /\ log' = Append(log, LogEntry("validate_cleaned_data", df, df))
    /\ arg' = df
    /\ call' = [rows |-> NRows(df)]
    /\ last' = "validate_cleaned_data"
    /\ UNCHANGED <<pipeline, entry, df, saved>>

\* REIT main(), line 416
SaveCleanedDataReit ==
    /\ pipeline = "reit"
    /\ pc = "save"
    /\ saved' = save_cleaned_data(saved, df)
    /\ log' = Append(log, LogEntry("save_cleaned_data", df, df))
    /\ arg' = df
    /\ call' = [filename |-> "processed"]
    /\ last' = "save_cleaned_data"
    /\ pc' = "report"
    /\ UNCHANGED <<pipeline, entry, df, summary, result>>

\* REIT main(), lines 418-433: the final summary divides by the row count of
\* the raw table (line 423), a ZeroDivisionError when the raw file has no rows.
PrintSummaryReit ==
    /\ pipeline = "reit"
    /\ pc = "report"
    /\ result' = IF log[1].rows_before = 0 THEN Raised("ZeroDivisionError")
                 ELSE Returned(<<df>>, "processed")
    /\ pc' = "done"
    /\ UNCHANGED <<pipeline, entry, df, arg, last, call, summary, log, saved>>

\* Climate main(), lines 393-400; dataset2 main(), lines 339-346
SaveCleanedData ==
    /\ pipeline \in {"climate", "dataset2"}
    /\ pc = "save"
    /\ saved' = save_cleaned_data(saved, df)
    /\ log' = Append(log, LogEntry("save_cleaned_data", df, df))
    /\ arg' = df
    /\ call' = [filename |-> "processed"]
    /\ last' = "save_cleaned_data"
    /\ result' = Returned(<<df>>, "processed")
    /\ pc' = "done"
    /\ UNCHANGED <<pipeline, entry, df, summary>>

Next ==
    \/ CleanMissingValuesReit
    \/ CleanMissingValuesClimate
    \/ HandleOutliers
    \/ HandleOutliersZscore
    \/ RemoveDuplicates
    \/ RemoveDuplicatesAgain
    \/ ApplyFiltersReit
    \/ ApplyFiltersClimate
    \/ ApplyFiltersDataset2
    \/ ApplyFiltersAgain
    \/ ValidateCleanedData
    \/ SaveCleanedDataReit
    \/ PrintSummaryReit
    \/ SaveCleanedData

Spec == Init /\ [][Next]_vars

---------------------------------------------------------------------------
(* The caller's table *)

\* The table object the caller passed to the stage that returned last, as the
\* stage leaves it.  A stage that assigns to a column of df before it rebinds
\* df writes into the caller's object:
\*   clean_missing_values  fills the columns of the caller's object when it
\*                         drops no column (REIT line 138, Climate lines
\*                         134-142, dataset2 lines 119-127); after df.drop
\*                         (REIT line 122, Climate line 126) it fills a copy;
\*   REIT handle_outliers  assigns the capped columns (line 233) and returns
\*                         the caller's object;
\*   REIT apply_filters    adds the column 'year' (line 308);
\*   Climate apply_filters converts the column 'date' (line 239);
\* the other stages only rebind df to a new table.
CallerTableAfter ==
    IF last = "clean_missing_values"
    THEN IF NCols(df) = NCols(arg) THEN df ELSE arg
    ELSE IF last = "handle_outliers" THEN df
    ELSE IF last \in {"apply_filters", "apply_filters_again"} /\ HasCol(arg, "date")
    THEN IF pipeline = "reit"
         THEN SetColumn(arg, "year",
                  [i \in 1..NRows(arg) |-> YearOf(arg.rows[i]["date"])], "float")
         ELSE IF pipeline = "climate"
         THEN SetColumn(arg, "date", Column(arg, "date"), "datetime")
         ELSE arg
    ELSE arg

---------------------------------------------------------------------------
(* Properties *)

\* The stage ran last and returned.
Ran(stage) == last = stage /\ result.kind # "raised"

\* C1: every stage returns a table with no more rows and no more columns than
\* the table it was given; no stage, apply_filters included, adds a row or a
\* column.
C1_StageNeverGrows ==
    last # "load_raw_data" => NRows(df) <= NRows(arg) /\ NCols(df) <= NCols(arg)

\* C2: the table clean_missing_values returns has no missing value in any
\* surviving column, whatever the table and the drop threshold.
C2_NoMissingAfterClean ==
    Ran("clean_missing_values") => MissingCount(df) = 0

\* The single numeric column of a table that has exactly one.
OnlyNumeric(t) == NumericCols(t)[1]
OneNumeric(t) == Len(NumericCols(t)) = 1

\* Some value of column c lies more than thr standard deviations from the mean.
FlaggedByZscore(t, c, thr) ==
    \E i \in 1..NRows(t) : zscore_mask(Column(t, c), thr)[i]

\* C3: CAP (handle_outliers) returns as many rows as it was given; REMOVE
\* (handle_outliers_zscore) never returns more rows, and strictly fewer when
\* the table has a single numeric column with at least one flagged value.
C3_OutlierRowCounts ==
    /\ Ran("handle_outliers") => NRows(df) = NRows(arg)
    /\ Ran("handle_outliers_zscore") =>
          /\ NRows(df) <= NRows(arg)
          /\ (OneNumeric(arg) /\ FlaggedByZscore(arg, OnlyNumeric(arg), call.threshold))
             => NRows(df) < NRows(arg)

C3_Witness ==
    /\ Ran("handle_outliers_zscore")
    /\ OneNumeric(arg)
    /\ FlaggedByZscore(arg, OnlyNumeric(arg), call.threshold)
    /\ NRows(df) = NRows(arg) - 1
    /\ NRows(df) >= 2

\* Rows i and j of t hold equal cells in every column, two nulls being equal.
RowsEqual(t, i, j) == \A c \in ColSet(t) : t.rows[i][c] = t.rows[j][c]

\* The rows of t that equal no earlier row, in row order.
FirstOccurrences(t) ==
    Keep(t.rows, [i \in 1..NRows(t) |-> ~\E j \in 1..(i - 1) : RowsEqual(t, j, i)])

\* C4: remove_duplicates applied to its own result returns that result
\* unchanged and reports zero duplicates found.
C4_DedupeIdempotent ==
    Ran("remove_duplicates_again") => df = arg /\ summary.duplicates_found = 0

C4_Witness ==
    /\ Ran("remove_duplicates_again")
    /\ call.previous.duplicates_found > 0
    /\ NRows(df) >= 2

\* C5 as claimed: of the rows equal in every column remove_duplicates keeps
\* exactly the first, in row order, and duplicates_found is rows_before -
\* rows_after.
C5_KeepsFirstOccurrences ==
    Ran("remove_duplicates") =>
        /\ df.rows = FirstOccurrences(arg)
        /\ summary.duplicates_found = NRows(arg) - NRows(df)

\* C5, amended: that holds of every table with at least one column; a table
\* without columns is returned as it is, with zero duplicates found.
C5_KeepsFirstOccurrencesOfColumns ==
    Ran("remove_duplicates") =>
        /\ NCols(arg) > 0 => df.rows = FirstOccurrences(arg)
        /\ NCols(arg) = 0 => df = arg
        /\ df.cols = arg.cols
        /\ summary.duplicates_found = NRows(arg) - NRows(df)

C5_Witness ==
    /\ Ran("remove_duplicates")
    /\ NCols(arg) > 0
    /\ summary.duplicates_found > 0
    /\ NRows(df) >= 2
    /\ \E i \in 1..NRows(df) : \E c \in ColSet(df) : IsNull(df.rows[i][c])

\* v lies within [Q1 - 1.5*IQR, Q3 + 1.5*IQR] of the series s (times 8).
InsideIqrFence(s, v) ==
    /\ 8 * v >= 5 * Quantile4(s, 1) - 3 * Quantile4(s, 3)
    /\ 8 * v <= 5 * Quantile4(s, 3) - 3 * Quantile4(s, 1)

OutsideIqrFence(s) == {i \in DOMAIN s : NotNa(s[i]) /\ ~InsideIqrFence(s, s[i])}

\* C6: identify_outliers_iqr flags exactly the values strictly below
\* Q1 - k*IQR or strictly above Q3 + k*IQR (a value on a bound is not flagged),
\* and with k = 1.5 on [1, 2, 3, 4, 5, 100] it flags 100 and nothing else.
C6_IqrFlagsStrictlyOutside ==
    (Ran("handle_outliers") /\ call.method = "iqr") =>
        /\ \A j \in 1..Len(NumericCols(arg)) :
              LET s == Column(arg, NumericCols(arg)[j])
              IN \A i \in DOMAIN s :
                    identify_outliers_iqr(s, OUTLIER_THRESHOLD)[i]
                        <=> i \in OutsideIqrFence(s)
        /\ OneNumeric(arg) =>
              summary.outliers_found =
                  Cardinality(OutsideIqrFence(Column(arg, OnlyNumeric(arg))))
        /\ arg = IqrExample =>
              /\ identify_outliers_iqr(Column(arg, "x"), OUTLIER_THRESHOLD)
                    = <<FALSE, FALSE, FALSE, FALSE, FALSE, TRUE>>
              /\ summary.outliers_found = 1

C6_Witness ==
    /\ Ran("handle_outliers")
    /\ call.method = "iqr"
    /\ arg = IqrExample
    /\ summary.outliers_found = 1

\* |v - mean| / stddev > thr for the mean and the standard deviation (with
\* divisor n - ddof) of the non-null values of s, from the sums of the values
\* and of their squares; FALSE while the standard deviation is 0 or undefined.
BeyondZ(s, v, thr, ddof) ==
    LET x == DropNa(s)
        n == Len(x)
        S == SumSeq(x)
        SS == SumSeq([i \in DOMAIN x |-> x[i] * x[i]])
    IN /\ NotNa(v)
       /\ n - ddof > 0
       /\ n * SS - S * S > 0
       /\ (n * v - S) * (n * v - S) * (n - ddof) * thr.den * thr.den
             > thr.num * thr.num * n * (n * SS - S * S)

\* C7: z-score detection flags exactly the values with |value - mean| / stddev
\* strictly above the threshold in force (the threshold argument of
\* handle_outliers_zscore, OUTLIER_THRESHOLD in handle_outliers); with
\* threshold 3 on a column of mean 0 and stddev 1 (here 10 times that) 2.9 is
\* kept and 3.1 is flagged.
C7_ZscoreFlagsStrictlyBeyond ==
    /\ Ran("handle_outliers_zscore") =>
          /\ \A j \in 1..Len(NumericCols(arg)) :
                LET s == Column(arg, NumericCols(arg)[j])
                IN \A i \in DOMAIN s :
                      zscore_mask(s, call.threshold)[i]
                          <=> BeyondZ(s, s[i], call.threshold, 1)
          /\ OneNumeric(arg) =>
                LET s == Column(arg, OnlyNumeric(arg))
                IN df.rows = Keep(arg.rows, [i \in DOMAIN s |->
                                    ~BeyondZ(s, s[i], call.threshold, 1)])
          /\ (arg = ZscoreExample /\ call.threshold = Frac(3, 1)) =>
                /\ 29 \in SeqToSet(Column(df, "x"))
                /\ 31 \notin SeqToSet(Column(df, "x"))
                /\ NRows(df) = NRows(arg) - 2
    /\ (Ran("handle_outliers") /\ call.method = "zscore") =>
          /\ \A j \in 1..Len(NumericCols(arg)) :
                LET s == Column(arg, NumericCols(arg)[j])
                IN \A i \in DOMAIN s :
                      identify_outliers_zscore(s, OUTLIER_THRESHOLD)[i]
                          <=> (/\ \A k \in DOMAIN s : NotNa(s[k])
                               /\ BeyondZ(s, s[i], OUTLIER_THRESHOLD, 0))
          /\ OneNumeric(arg) =>
                LET s == Column(arg, OnlyNumeric(arg))
                IN summary.outliers_found =
                      Cardinality({i \in DOMAIN s :
                          /\ \A k \in DOMAIN s : NotNa(s[k])
                          /\ BeyondZ(s, s[i], OUTLIER_THRESHOLD, 0)})

C7_Witness ==
    /\ Ran("handle_outliers_zscore")
    /\ arg = ZscoreExample
    /\ call.threshold = Frac(3, 1)
    /\ 29 \in SeqToSet(Column(df, "x"))
    /\ 31 \notin SeqToSet(Column(df, "x"))

\* Every value of the series is the same (a single row included).
Degenerate(s) == \A i, j \in DOMAIN s : s[i] = s[j]

\* C8: a numeric column of standard deviation 0 (all values equal, or a single
\* row) has no value flagged by z-score outlier handling and costs no row: the
\* rows removed are those the other columns flag.
C8_ZeroStdFlagsNothing ==
    Ran("handle_outliers_zscore") =>
        LET cols == NumericCols(arg)
            flat(j) == Degenerate(Column(arg, cols[j]))
        IN /\ \A j \in 1..Len(cols) :
                 flat(j) => \A i \in 1..NRows(arg) :
                               ~zscore_mask(Column(arg, cols[j]), call.threshold)[i]
           /\ (\A j \in 1..Len(cols) : flat(j)) =>
                 df = arg /\ summary.outliers_count = 0
           /\ \A j \in 1..Len(cols) :
                 (\A k \in 1..Len(cols) : k # j => flat(k)) =>
                     LET s == Column(arg, cols[j])
                     IN df.rows = Keep(arg.rows, [i \in DOMAIN s |->
                                         ~BeyondZ(s, s[i], call.threshold, 1)])

C8_Witness ==
    /\ Ran("handle_outliers_zscore")
    /\ Len(NumericCols(arg)) = 2
    /\ NRows(arg) >= 3
    /\ Degenerate(Column(arg, "x"))
    /\ NRows(df) < NRows(arg)

BeforeCompanyFilter(t) ==
    ClimateReturnsFilter(ClimatePairedFilter(ClimateScoreFilter(
        ClimatePriceFilter(ClimateDateFilter(t)))))

RowsOf(t, c, v) == Keep(t.rows, [i \in 1..NRows(t) |-> t.rows[i][c] = v])

\* C10: the minimum-group-size filter removes every row of a company with
\* fewer than MIN_OBSERVATIONS = 20 rows in the table the filter is applied to
\* and keeps every row of a company with at least that many: a company of 19
\* rows goes entirely, one of 20 rows stays entirely.
C10_MinimumGroupSize ==
    (Ran("apply_filters") /\ pipeline = "climate" /\ HasCol(arg, "ticker")) =>
        LET t5 == BeforeCompanyFilter(arg)
        IN /\ \A v \in SeqToSet(Column(t5, "ticker")) :
                 /\ ValueCount(t5, "ticker", v) < 20 => RowsOf(df, "ticker", v) = <<>>
                 /\ ValueCount(t5, "ticker", v) >= 20 =>
                       RowsOf(df, "ticker", v) = RowsOf(t5, "ticker", v)
           /\ SeqToSet(Column(df, "ticker")) \subseteq SeqToSet(Column(t5, "ticker"))
           /\ arg = GroupExample =>
                 /\ ValueCount(df, "ticker", 1) = 0
                 /\ ValueCount(df, "ticker", 2) = 20
                 /\ ValueCount(df, "ticker", 3) = 0

C10_Witness ==
    /\ Ran("apply_filters")
    /\ pipeline = "climate"
    /\ HasCol(arg, "ticker")
    /\ ValueCount(arg, "ticker", 1) = 19
    /\ ValueCount(arg, "ticker", 2) = 20
    /\ ValueCount(arg, "ticker", 3) = 20
    /\ ValueCount(df, "ticker", 1) = 0
    /\ ValueCount(df, "ticker", 2) = 20
    /\ NRows(df) = 20


---------------------------------------------------------------------------
(* apply_filters: order and conjunction *)

\* A row of t, cut to the columns of the table u.
RowOn(t, i, u) == [c \in ColSet(u) |-> t.rows[i][c]]
RowsOn(t, u) == [i \in 1..NRows(t) |-> RowOn(t, i, u)]

\* Does the row r of a table with the columns of t meet a criterion, a
\* criterion on an absent column being met by every row.
OnCol(t, c, ok) == HasCol(t, c) => ok

ReitRowPasses(t, r) ==
    /\ OnCol(t, "date", /\ NotNa(r["date"])
                        /\ r["date"] \div 10000 >= START_YEAR
                        /\ r["date"] \div 10000 <= END_YEAR)
    /\ OnCol(t, "assets", NotNa(r["assets"]) /\ r["assets"] >= MIN_ASSETS)
    /\ OnCol(t, "usdret", NotNa(r["usdret"]))
    /\ OnCol(t, "usdprc", NotNa(r["usdprc"]) /\ r["usdprc"] > 0)
    /\ OnCol(t, "rtype", r["rtype"] = RTYPE_KEPT)

ClimateRowPasses(t, r) ==
    /\ OnCol(t, "date", /\ NotNa(r["date"])
                        /\ r["date"] >= START_DATE
                        /\ r["date"] <= END_DATE)
    /\ OnCol(t, "stock_price",
             NotNa(r["stock_price"]) /\ r["stock_price"] >= MIN_STOCK_PRICE)
    /\ OnCol(t, "climate_score", NotNa(r["climate_score"]))
    /\ \A k \in 1..Len(REQUIRED_COLUMNS) :
          OnCol(t, REQUIRED_COLUMNS[k], NotNa(r[REQUIRED_COLUMNS[k]]))
    /\ OnCol(t, "returns", IsFinite(r["returns"]))

\* The rows of t that pass, in their order.
PassingRows(t, Passes(_, _)) ==
    Keep(t.rows, [i \in 1..NRows(t) |-> Passes(t, t.rows[i])])

\* The company criterion on the rows that passed the row criteria.
EnoughObservations(t, rows, r) ==
    OnCol(t, "ticker",
          Cardinality({j \in DOMAIN rows : rows[j]["ticker"] = r["ticker"]})
              >= MIN_OBSERVATIONS)

\* C11: apply_filters returns exactly the input rows that meet every criterion
\* whose column is present, in their order; the criteria follow one another in
\* the fixed order, so the company criterion of the climate module counts the
\* rows that the five criteria before it kept.
C11_FiltersAreConjunction ==
    Ran("apply_filters") =>
        /\ pipeline = "reit" =>
              RowsOn(df, arg) = PassingRows(arg, ReitRowPasses)
        /\ pipeline = "climate" =>
              LET kept == PassingRows(arg, ClimateRowPasses)
              IN df.rows = Keep(kept, [i \in DOMAIN kept |->
                              EnoughObservations(arg, kept, kept[i])])
        /\ pipeline = "dataset2" =>
              df.rows = Keep(arg.rows, [i \in 1..NRows(arg) |->
                  \/ NumericCols(arg) = <<>>
                  \/ \E c \in SeqToSet(NumericCols(arg)) : arg.rows[i][c] # 0])

\* REIT filters with two criteria enabled, one input row kept and one removed.
C11_Witness ==
    /\ Ran("apply_filters")
    /\ pipeline = "reit"
    /\ HasCol(arg, "date") /\ HasCol(arg, "rtype")
    /\ NRows(arg) = 2
    /\ NRows(df) = 1

---------------------------------------------------------------------------
(* apply_filters: absent columns *)

ReitTargets == <<"date", "assets", "usdret", "usdprc", "rtype">>
ReitFilterNames ==
    <<"year_filter_2000_2024", "min_assets_100M", "valid_returns", "valid_prices",
      "rtype_2.0">>
ClimateTargets == <<"date", "stock_price", "climate_score", "returns", "ticker">>

Absent(t, targets) == {c \in SeqToSet(targets) : ~HasCol(t, c)}

\* C12: a criterion whose column is absent is skipped.  It raises nothing (the
\* only exception of apply_filters comes from a date column that is present),
\* it removes no row (every input row that meets the criteria of the present
\* columns is returned, and a table with none of the columns is returned as it
\* is), it is not listed as applied and reports nothing removed, and the
\* criteria of the present columns are applied all the same.
C12_AbsentColumnSkipsCriterion ==
    /\ (last = "apply_filters" /\ result.kind = "raised") => HasCol(arg, "date")
    /\ (Ran("apply_filters") /\ pipeline = "reit" /\ Absent(arg, ReitTargets) # {}) =>
          /\ NRows(df) = Len(PassingRows(arg, ReitRowPasses))
          /\ \A i \in 1..NRows(df) : ReitRowPasses(arg, df.rows[i])
          /\ summary.filters_applied =
                Keep(ReitFilterNames,
                     [k \in 1..Len(ReitTargets) |-> HasCol(arg, ReitTargets[k])])
          /\ ~HasCol(arg, "assets") => summary.assets_removed = 0
          /\ ~HasCol(arg, "usdret") => summary.returns_removed = 0
          /\ ~HasCol(arg, "usdprc") => summary.price_removed = 0
          /\ ~HasCol(arg, "rtype") => summary.rtype_removed = 0
          /\ Absent(arg, ReitTargets) = SeqToSet(ReitTargets) => df = arg
    /\ (Ran("apply_filters") /\ pipeline = "climate"
            /\ Absent(arg, ClimateTargets) # {}) =>
          /\ ~HasCol(arg, "ticker") =>
                NRows(df) = Len(PassingRows(arg, ClimateRowPasses))
          /\ \A i \in 1..NRows(df) : ClimateRowPasses(arg, df.rows[i])
          /\ ~HasCol(arg, "stock_price") => summary.price_removed = 0
          /\ ~HasCol(arg, "climate_score") => summary.climate_removed = 0
          /\ ~HasCol(arg, "returns") => summary.returns_removed = 0
          /\ ~HasCol(arg, "ticker") => summary.companies_removed = 0
          /\ Absent(arg, ClimateTargets) = SeqToSet(ClimateTargets) => df = arg

\* REIT filters on a table without date, usdret and rtype: the price criterion
\* still removes a row.
C12_Witness ==
    /\ Ran("apply_filters")
    /\ pipeline = "reit"
    /\ Absent(arg, ReitTargets) = {"date", "usdret", "rtype"}
    /\ NRows(df) < NRows(arg)
    /\ NRows(df) > 0

---------------------------------------------------------------------------
(* apply_filters: the removed counts *)

\* C13: every criterion that ran reports as removed the row count just before
\* it minus the row count just after it.
C13_RemovedIsMarginal ==
    /\ (Ran("apply_filters") /\ pipeline = "reit") =>
          LET t1 == ReitYearFilter(arg)
              t2 == ReitAssetsFilter(t1)
              t3 == ReitReturnsFilter(t2)
              t4 == ReitPriceFilter(t3)
              t5 == ReitRtypeFilter(t4)
          IN /\ HasCol(arg, "assets") => summary.assets_removed = NRows(t1) - NRows(t2)
             /\ HasCol(arg, "usdret") => summary.returns_removed = NRows(t2) - NRows(t3)
             /\ HasCol(arg, "usdprc") => summary.price_removed = NRows(t3) - NRows(t4)
             /\ HasCol(arg, "rtype") => summary.rtype_removed = NRows(t4) - NRows(t5)
    /\ (Ran("apply_filters") /\ pipeline = "climate") =>
          LET t1 == ClimateDateFilter(arg)
              t2 == ClimatePriceFilter(t1)
              t3 == ClimateScoreFilter(t2)
              t4 == ClimatePairedFilter(t3)
              t5 == ClimateReturnsFilter(t4)
          IN /\ HasCol(arg, "stock_price") => summary.price_removed = NRows(t1) - NRows(t2)
             /\ HasCol(arg, "climate_score") =>
                   summary.climate_removed = NRows(t2) - NRows(t3)
             /\ summary.paired_removed = NRows(t3) - NRows(t4)
             /\ HasCol(arg, "returns") => summary.returns_removed = NRows(t4) - NRows(t5)
    /\ (Ran("apply_filters") /\ pipeline = "dataset2" /\ NumericCols(arg) # <<>>) =>
          summary.all_zero_found = NRows(arg) - NRows(df)

---------------------------------------------------------------------------
(* validate_cleaned_data *)

\* C14: validate_cleaned_data returns False exactly for a table without rows,
\* nulls in identifier columns only give a warning, and it raises nothing.
C14_ValidatorVerdict ==
    last = "validate_cleaned_data" =>
        /\ result.kind # "raised"
        /\ summary.is_valid = (NRows(arg) > 0)
        /\ (summary.warnings > 0) =
              (\E c \in ColSet(arg) : IsCriticalCol(c) /\ NullCount(arg, c) > 0)

\* A table with rows and a null in its identifier column passes with a warning.
C14_Witness ==
    /\ Ran("validate_cleaned_data")
    /\ HasCol(arg, "entity_id")
    /\ NullCount(arg, "entity_id") > 0
    /\ summary.is_valid
    /\ summary.warnings = 1

\* A table without rows that has an identifier column fails, without exception.
C14_EmptyWithIdFails ==
    /\ Ran("validate_cleaned_data")
    /\ HasCol(arg, "entity_id")
    /\ NRows(arg) = 0
    /\ ~summary.is_valid

---------------------------------------------------------------------------
(* main() *)

Stages(l) == [k \in DOMAIN l |-> l[k].stage]
InLog(stage) == \E k \in DOMAIN log : log[k].stage = stage

\* The filter stage of this run of main() left a table without rows.
EmptyAfterFilters ==
    /\ entry = "main"
    /\ \E k \in DOMAIN log : log[k].stage = "apply_filters" /\ log[k].rows_after = 0

\* The run ended without handing a table to the caller: main() raised, or
\* returned None.
EndedInFailure == pc = "done" /\ (result.kind = "raised" \/ result.df = <<>>)

\* C15: when the table is empty after the filter stage, nothing is saved, and
\* the run ends in a failure, not in the return of the empty table.
C15_EmptyTableFailsUnsaved ==
    EmptyAfterFilters =>
        /\ saved = <<>>
        /\ ~InLog("save_cleaned_data")
        /\ pc = "done" => EndedInFailure

\* The order of the stages; either outlier stage stands for outlier handling.
StageOrder ==
    <<"clean_missing_values", "handle_outliers", "remove_duplicates",
      "apply_filters", "validate_cleaned_data", "save_cleaned_data">>
StageName(stage) ==
    IF stage = "handle_outliers_zscore" THEN "handle_outliers" ELSE stage
IsPrefix(a, b) == Len(a) <= Len(b) /\ \A k \in DOMAIN a : a[k] = b[k]

\* C16: a run of main() goes through missing values, outliers, duplicates,
\* filters and validation in this order, each stage taking the table the one
\* before it produced, and it saves only after the validation.
C16_StagesInOrder ==
    /\ [](entry = "main" =>
            /\ IsPrefix([k \in DOMAIN log |-> StageName(log[k].stage)], StageOrder)
            /\ saved # <<>> => InLog("validate_cleaned_data"))
    /\ [][(entry = "main" /\ log' # log) => arg' = df]_vars

\* A stage raised (pd.to_datetime and handle_outliers raise ValueError).
StageRaised == result.kind = "raised" /\ result.error = "ValueError"

\* C17: when a stage raises, no later stage runs, nothing is saved, and main()
\* returns the report of the completed stages with the error.
C17_ErrorReturnsReport ==
    (entry = "main" /\ StageRaised) =>
        /\ pc = "done"
        /\ saved = <<>>
        /\ Stages(log) # <<>> => log[Len(log)].stage # last
        /\ result.kind = "returned"

\* C18: an unknown outlier method is an error for every table, raised before
\* any stage has run.
C18_UnknownMethodFailsFast ==
    (entry = "main" /\ last = "handle_outliers"
        /\ call.method \notin {"iqr", "zscore"}) =>
        /\ result.kind = "raised"
        /\ log = <<>>

\* A numeric column with rows, all of them missing.
AllMissingNumeric(t) ==
    \E c \in ColSet(t) :
        t.dtype[c] = "float" /\ NRows(t) > 0 /\ NullCount(t, c) = NRows(t)

\* C19: with a drop threshold of 1.0 or more, a numeric column that is entirely
\* missing makes clean_missing_values fail with a DataQualityError.
C19_AllMissingColumnFails ==
    (last = "clean_missing_values"
        /\ call.threshold.num >= call.threshold.den
        /\ AllMissingNumeric(arg)) =>
        /\ result.kind = "raised"
        /\ result.error = "DataQualityError"

\* C20: the table main() returns holds no two rows with the same ticker and
\* date, when it has both columns.
C20_KeyPairUnique ==
    (entry = "main" /\ pc = "done" /\ result.kind = "returned" /\ result.df # <<>>) =>
        LET t == result.df[1]
        IN (HasCol(t, "ticker") /\ HasCol(t, "date")) =>
              \A i, j \in 1..NRows(t) :
                  (t.rows[i]["ticker"] = t.rows[j]["ticker"]
                      /\ t.rows[i]["date"] = t.rows[j]["date"]) => i = j

---------------------------------------------------------------------------
(* clean_missing_values: the drop rule *)

\* The missing ratio of the column c of t against the fraction thr.
RatioAbove(t, c, thr) == NullCount(t, c) * thr.den > thr.num * NRows(t)
RatioEquals(t, c, thr) == NullCount(t, c) * thr.den = thr.num * NRows(t)

---------------------------------------------------------------------------
(* clean_missing_values: what it leaves alone *)

\* C29: clean_missing_values keeps the rows and their order, and in every
\* column it keeps, every cell that was not missing keeps its value.
C29_CleanWritesOnlyMissingCells ==
    Ran("clean_missing_values") =>
        /\ NRows(df) = NRows(arg)
        /\ \A c \in ColSet(df) :
              /\ HasCol(arg, c)
              /\ \A i \in 1..NRows(arg) :
                    NotNa(arg.rows[i][c]) => df.rows[i][c] = arg.rows[i][c]

\* A kept column with a missing cell, filled, next to a cell that held another
\* value than the fill.
C29_Witness ==
    /\ Ran("clean_missing_values")
    /\ \E c \in ColSet(df) : \E i, j \in 1..NRows(arg) :
          /\ IsNull(arg.rows[i][c])
          /\ NotNa(df.rows[i][c])
          /\ NotNa(arg.rows[j][c])
          /\ df.rows[j][c] # df.rows[i][c]

---------------------------------------------------------------------------
(* clean_missing_values: ties of the mode *)

\* The values of s that occur most often among its non-missing cells.
MostFrequent(s) ==
    {x \in SeqToSet(DropNa(s)) :
        \A y \in SeqToSet(DropNa(s)) : Occurrences(s, y) <= Occurrences(s, x)}

FirstIndex(s, x) == CHOOSE i \in DOMAIN s : s[i] = x /\ \A j \in 1..(i - 1) : s[j] # x

\* The most frequent value met first in row order.
FirstEncountered(s) ==
    CHOOSE x \in MostFrequent(s) :
        \A y \in MostFrequent(s) : FirstIndex(s, x) <= FirstIndex(s, y)

\* C25: the missing cells of a categorical column are filled with the most
\* frequent value, a tie going to the value that comes first in the column.
C25_ModeTieFirstEncountered ==
    Ran("clean_missing_values") =>
        \A c \in ColSet(df) :
            (arg.dtype[c] = "object" /\ MostFrequent(Column(arg, c)) # {}) =>
                \A i \in 1..NRows(arg) :
                    IsNull(arg.rows[i][c]) =>
                        df.rows[i][c] = FirstEncountered(Column(arg, c))

---------------------------------------------------------------------------
(* handle_outliers_zscore: the order of the columns *)

\* The rows of t without those the column c flags on t.
WithoutFlagged(t, c, thr) ==
    LET mask == zscore_mask(Column(t, c), thr)
    IN FilterRows(t, [i \in 1..NRows(t) |-> ~mask[i]])

\* C26: handle_outliers_zscore takes the numeric columns in the order of the
\* table, each on the rows the columns before it left: with the numeric
\* columns x, y the result is what y leaves of what x left.  No row is counted
\* twice: the logged count is the number of rows removed.
C26_RemoveInColumnOrder ==
    Ran("handle_outliers_zscore") =>
        /\ summary.outliers_count = NRows(arg) - NRows(df)
        /\ NumericCols(arg) = <<"x", "y">> =>
              df = WithoutFlagged(WithoutFlagged(arg, "x", call.threshold),
                                  "y", call.threshold)

\* The column x removes a row, and a row that y flags on the table as given
\* is no longer flagged on the rows x left: it stays.
C26_Witness ==
    /\ Ran("handle_outliers_zscore")
    /\ NumericCols(arg) = <<"x", "y">>
    /\ NRows(df) = NRows(arg) - 1
    /\ \E i \in 1..NRows(arg) :
          /\ zscore_mask(Column(arg, "y"), call.threshold)[i]
          /\ ~zscore_mask(Column(arg, "x"), call.threshold)[i]

---------------------------------------------------------------------------
(* handle_outliers: what it leaves alone, what it reports *)

\* The number of values the method flags in the column c of t.
FlaggedCount(t, c, method) == CountTrue(OutlierMaskReit(Column(t, c), method))

\* The numeric columns of t with at least one flagged value.
FlaggedCols(t, method) ==
    {c \in SeqToSet(NumericCols(t)) : FlaggedCount(t, c, method) > 0}

RECURSIVE SumOver(_, _)
SumOver(S, f) ==
    IF S = {} THEN 0
    ELSE LET c == CHOOSE x \in S : TRUE IN f[c] + SumOver(S \ {c}, f)

\* C28: handle_outliers leaves alone every column that is not numeric and
\* every numeric column without a flagged value; columns_processed is the
\* number of columns with a flagged value, outliers_found the sum of their
\* flagged counts.
C28_CapTouchesFlaggedColumnsOnly ==
    Ran("handle_outliers") =>
        /\ df.cols = arg.cols
        /\ \A c \in ColSet(arg) \ FlaggedCols(arg, call.method) :
              Column(df, c) = Column(arg, c) /\ df.dtype[c] = arg.dtype[c]
        /\ summary.columns_processed = Cardinality(FlaggedCols(arg, call.method))
        /\ summary.outliers_found =
              SumOver(FlaggedCols(arg, call.method),
                      [c \in FlaggedCols(arg, call.method) |->
                          FlaggedCount(arg, c, call.method)])

\* A table with a text column and two numeric columns of which the IQR rule
\* flags one: that one is capped, one column is reported.
C28_Witness ==
    /\ Ran("handle_outliers")
    /\ call.method = "iqr"
    /\ arg.cols = <<"x", "y", "c">>
    /\ FlaggedCols(arg, "iqr") = {"x"}
    /\ Column(df, "x") # Column(arg, "x")
    /\ summary.columns_processed = 1

---------------------------------------------------------------------------
(* apply_filters: the validity of returns *)

\* The column of returns of each module that has one.
ReturnsColumn(p) == IF p = "reit" THEN "usdret" ELSE "returns"

\* C27: after apply_filters the column of returns holds finite values only,
\* and of a table with this column alone every row with a finite value is kept.
C27_ReturnsAreFinite ==
    (Ran("apply_filters") /\ pipeline \in {"reit", "climate"}
        /\ HasCol(arg, ReturnsColumn(pipeline))) =>
        LET c == ReturnsColumn(pipeline)
        IN /\ \A i \in 1..NRows(df) : IsFinite(df.rows[i][c])
           /\ arg.cols = <<c>> =>
                df.rows = Keep(arg.rows, [i \in 1..NRows(arg) |->
                                            IsFinite(arg.rows[i][c])])

---------------------------------------------------------------------------
(* apply_filters: a second pass *)

\* C30: apply_filters applied to its own output removes no row: the rows it
\* returns are the rows it was given, and under the minimum-group-size
\* criterion every company left by the first pass has at least
\* MIN_OBSERVATIONS rows.
C30_SecondPassRemovesNothing ==
    Ran("apply_filters_again") =>
        /\ df.rows = arg.rows
        /\ summary.rows_before = NRows(df)
        /\ (pipeline = "climate" /\ HasCol(arg, "ticker")) =>
              \A i \in 1..NRows(arg) :
                  NotNa(arg.rows[i]["ticker"]) =>
                      ValueCount(arg, "ticker", arg.rows[i]["ticker"])
                          >= MIN_OBSERVATIONS

\* A second pass over a table from which the first pass removed two companies
\* left with fewer than MIN_OBSERVATIONS rows.
C30_Witness ==
    /\ Ran("apply_filters_again")
    /\ pipeline = "climate"
    /\ HasCol(arg, "ticker")
    /\ Len(log) = 2
    /\ log[1].rows_before = 59
    /\ log[1].rows_after = 20
    /\ NRows(df) = 20

---------------------------------------------------------------------------
(* The stages and the table they are given *)

StageFunctions ==
    {"clean_missing_values", "handle_outliers", "handle_outliers_zscore",
     "remove_duplicates", "remove_duplicates_again",
     "apply_filters", "apply_filters_again"}

\* C23: after a stage function returns, the table the caller passed in has the
\* columns and the cells it had before the call.
C23_StageLeavesInputUnchanged ==
    (last \in StageFunctions /\ result.kind # "raised") => CallerTableAfter = arg

---------------------------------------------------------------------------
(* What the stages report *)

\* The value a summary holds under one of the names, -1 when it has none.
Reported(names) ==
    IF names \cap DOMAIN summary = {} THEN 0 - 1
    ELSE summary[CHOOSE f \in names \cap DOMAIN summary : TRUE]

\* The columns of a that are not columns of b, each with its missing ratio.
DroppedWithRatio(a, b) ==
    {[name |-> c, missing |-> NullCount(a, c), rows |-> NRows(a)] :
        c \in SeqToSet(a.cols) \ SeqToSet(b.cols)}

\* C22: every stage reports the row and column counts before and after it,
\* the missing-value stage reports the dropped columns by name with their
\* missing ratio, and main() returns the report with the table.
C22_DropsAreReported ==
    /\ (last \in StageFunctions /\ result.kind # "raised") =>
          /\ Reported({"rows_before"}) = NRows(arg)
          /\ Reported({"rows_after", "rows"}) = NRows(df)
          /\ Reported({"columns_before", "cols_before"}) = NCols(arg)
          /\ Reported({"columns_after", "cols_after", "columns"}) = NCols(df)
          /\ last = "clean_missing_values" =>
                /\ "dropped_columns" \in DOMAIN summary
                /\ summary.dropped_columns = DroppedWithRatio(arg, df)
    /\ (entry = "main" /\ result.kind = "returned" /\ result.df # <<>>) =>
          "report" \in DOMAIN result

---------------------------------------------------------------------------
(* main(): end to end *)

\* REIT main() returned for EndToEndExample with the column m dropped (the
\* default threshold).
EndToEndReturned ==
    /\ entry = "main" /\ pipeline = "reit"
    /\ pc = "done" /\ result.kind = "returned"
    /\ log[1].rows_before = 100
    /\ ~HasCol(df, "m")

\* C21: for the file of 100 rows and 5 columns with one column 80% missing,
\* three extreme values in a numeric column, two duplicate rows and ten rows
\* outside the date range, main() returns 4 columns and 88 rows, the three
\* rows of the extreme values among them with capped values.
C21_EndToEnd ==
    EndToEndReturned =>
        LET out == result.df[1]
        IN /\ NCols(out) = 4
           /\ NRows(out) = 88
           /\ \A id \in 50..52 :
                \E i \in 1..NRows(out) :
                    out.rows[i]["c"] = id /\ out.rows[i]["x"] < 30

===========================================================================
